---- MODULE Spec2Model ----
(***************************************************************************)
(* RouterSimulator.cpp: a command loop over a routing table.               *)
(*                                                                         *)
(* A text token is a sequence of one-character strings.  A 32-bit word     *)
(* (uint32_t) is a tuple of its four bytes, most significant first, so     *)
(* that every intermediate value stays inside the model checker's          *)
(* integers; shifts, AND and OR are computed on that representation.       *)
(***************************************************************************)
EXTENDS Integers, Sequences, FiniteSets, TLC

(***************************************************************************)
(* Bound of the model: the number of records one session appends to the    *)
(* log (and so the number of routes the table can hold).                   *)
(***************************************************************************)
MaxLog == 3

(***************************************************************************)
(* Bound of the sessions of add and del commands alone (SpecHistory): the  *)
(* number of records such a session appends to the log.                    *)
(***************************************************************************)
MaxHistory == 4

\* ------------------------- text scanning -------------------------

Digits == {"0", "1", "2", "3", "4", "5", "6", "7", "8", "9"}

DigitVal(c) ==
  CASE c = "0" -> 0 [] c = "1" -> 1 [] c = "2" -> 2 [] c = "3" -> 3
    [] c = "4" -> 4 [] c = "5" -> 5 [] c = "6" -> 6 [] c = "7" -> 7
    [] c = "8" -> 8 [] c = "9" -> 9

DigitChar(d) ==
  CASE d = 0 -> "0" [] d = 1 -> "1" [] d = 2 -> "2" [] d = 3 -> "3"
    [] d = 4 -> "4" [] d = 5 -> "5" [] d = 6 -> "6" [] d = 7 -> "7"
    [] d = 8 -> "8" [] d = 9 -> "9"

\* INT_MIN of the 32-bit int.
IntMin == (0 - 2147483647) - 1

\* The digits a decimal conversion consumes from position i on.  The value
\* is accumulated as a negative number, so that every int fits; over says
\* that the magnitude read is beyond the magnitude of INT_MIN (val is then
\* meaningless).
RECURSIVE ScanDigits(_, _, _, _)
ScanDigits(s, i, acc, over) ==
  IF i <= Len(s) /\ s[i] \in Digits
    THEN LET d == DigitVal(s[i])
         IN IF over \/ acc < ((IntMin + d + 9) \div 10)
              THEN ScanDigits(s, i + 1, acc, TRUE)
              ELSE ScanDigits(s, i + 1, (acc * 10) - d, FALSE)
    ELSE [val |-> acc, over |-> over, next |-> i]

\* What a scan that found digits from position first on yields, d being the
\* digits consumed.  over: the numeral is outside int (val is then
\* meaningless); first..next-1 are the digits.
ScanResult(d, neg, first) ==
  [ok |-> TRUE, over |-> d.over \/ (~neg /\ d.val = IntMin), neg |-> neg,
   val |-> IF d.over \/ (~neg /\ d.val = IntMin) THEN 0
           ELSE IF neg THEN d.val ELSE 0 - d.val,
   first |-> first, next |-> d.next]

\* The scan common to the decimal conversions (sscanf's %d, stoi,
\* operator>> into an int) at position i of a token without white space: an
\* optional sign, then at least one digit; what follows the digits is left
\* unread.  ok: digits were read.
ScanInt(s, i) ==
  LET signed == i <= Len(s) /\ s[i] \in {"-", "+"}
      neg == i <= Len(s) /\ s[i] = "-"
      j == IF signed THEN i + 1 ELSE i
  IN IF j <= Len(s) /\ s[j] \in Digits
       THEN ScanResult(ScanDigits(s, j, 0, FALSE), neg, j)
       ELSE [ok |-> FALSE, over |-> FALSE, neg |-> neg, val |-> 0,
             first |-> j, next |-> i]

\* The outcome of a conversion that fails on a numeral outside int.
InRange(r) == [ok |-> r.ok /\ ~r.over, val |-> r.val]

\* operator>> into an int (ss >> m): the extraction fails when there are no
\* digits and when the numeral is outside int.
extractInt(s) == InRange(ScanInt(s, 1))

\* LONG_MAX, in digits.
LongMaxDigits ==
  << "9", "2", "2", "3", "3", "7", "2", "0", "3", "6", "8", "5", "4", "7", "7",
     "5", "8", "0", "7" >>

RECURSIVE StripZeros(_)
StripZeros(ds) ==
  IF Len(ds) > 1 /\ ds[1] = "0" THEN StripZeros(Tail(ds)) ELSE ds

\* a > b for two numerals of the same length, from digit k on.
RECURSIVE GreaterFrom(_, _, _)
GreaterFrom(a, b, k) ==
  IF k > Len(a) THEN FALSE
  ELSE IF DigitVal(a[k]) # DigitVal(b[k]) THEN DigitVal(a[k]) > DigitVal(b[k])
  ELSE GreaterFrom(a, b, k + 1)

\* The numeral is beyond LONG_MAX.
BeyondLong(ds) ==
  LET t == StripZeros(ds)
  IN Len(t) > Len(LongMaxDigits)
       \/ (Len(t) = Len(LongMaxDigits) /\ GreaterFrom(t, LongMaxDigits, 1))

\* The low 32 bits (four bytes, most significant first) of x * 10 + d.
MulAddBytes(x, d) ==
  LET b4 == (x[4] * 10) + d
      b3 == (x[3] * 10) + (b4 \div 256)
      b2 == (x[2] * 10) + (b3 \div 256)
      b1 == (x[1] * 10) + (b2 \div 256)
  IN << b1 % 256, b2 % 256, b3 % 256, b4 % 256 >>

\* The same, of a word w that is computed once and then taken as a value.
MulAddWord(w, d) == CHOOSE r \in { MulAddBytes(x, d) : x \in {w} } : TRUE

\* The low 32 bits of the numeral ds.
RECURSIVE LowWord(_, _, _)
LowWord(ds, k, w) ==
  IF k > Len(ds) THEN w ELSE LowWord(ds, k + 1, MulAddWord(w, DigitVal(ds[k])))

\* The low 32 bits of -w.
NegWord(w) ==
  LET b4 == (255 - w[4]) + 1
      b3 == (255 - w[3]) + (b4 \div 256)
      b2 == (255 - w[2]) + (b3 \div 256)
      b1 == (255 - w[1]) + (b2 \div 256)
  IN << b1 % 256, b2 % 256, b3 % 256, b4 % 256 >>

\* The int whose 32-bit pattern is w.
WordToInt(w) ==
  ((IF w[1] >= 128 THEN w[1] - 256 ELSE w[1]) * 16777216)
    + (w[2] * 65536) + (w[3] * 256) + w[4]

\* What sscanf's %d stores for a numeral outside int.  The C standard
\* leaves it undefined; the C library of the build converts the numeral as
\* a long, clamped to LONG_MIN..LONG_MAX, and stores its low 32 bits.
ScanfOverflow(ds, neg) ==
  IF BeyondLong(ds) THEN (IF neg THEN 0 ELSE 0 - 1)
  ELSE LET w == LowWord(ds, 1, << 0, 0, 0, 0 >>)
       IN WordToInt(IF neg THEN NegWord(w) ELSE w)

\* What one %d of sscanf stores, r being its scan of s.
ScanfStored(s, r) ==
  [ok |-> r.ok, next |-> r.next,
   val |-> IF r.ok /\ r.over
             THEN ScanfOverflow(SubSeq(s, r.first, r.next - 1), r.neg)
             ELSE r.val]

\* One %d of sscanf at position i.
ScanfInt(s, i) == ScanfStored(s, ScanInt(s, i))

\* sscanf(ip, "%d.%d.%d.%d", ...): the integers assigned, in order; the
\* scan stops at the first conversion or literal '.' that does not match.
\* ScanNext continues after the conversion r.
RECURSIVE ScanParts(_, _, _)
ScanNext(s, parts, r) ==
  IF ~r.ok THEN parts
  ELSE IF Len(parts) = 3 THEN Append(parts, r.val)
  ELSE IF r.next <= Len(s) /\ s[r.next] = "."
    THEN ScanParts(s, r.next + 1, Append(parts, r.val))
    ELSE Append(parts, r.val)

ScanParts(s, i, parts) == ScanNext(s, parts, ScanfInt(s, i))

\* string::find: the position of the first c in s, 0 when there is none (npos).
RECURSIVE FindFrom(_, _, _)
FindFrom(s, c, i) ==
  IF i > Len(s) THEN 0 ELSE IF s[i] = c THEN i ELSE FindFrom(s, c, i + 1)

\* ------------------------- 32-bit words -------------------------

Pow2(n) ==
  CASE n = 0 -> 1 [] n = 1 -> 2 [] n = 2 -> 4 [] n = 3 -> 8 [] n = 4 -> 16
    [] n = 5 -> 32 [] n = 6 -> 64 [] n = 7 -> 128 [] n = 8 -> 256

\* The 32-bit two's complement pattern of an int, as four bytes.
IntToWord(x) ==
  << (x \div 16777216) % 256, (x \div 65536) % 256, (x \div 256) % 256, x % 256 >>

WordByte(w, k) == IF k \in 1..4 THEN w[k] ELSE 0

\* w << n on 32 bits, 0 <= n <= 31.
Shl(w, n) ==
  LET q == n \div 8
      r == n % 8
  IN [k \in 1..4 |->
        ((WordByte(w, k + q) * Pow2(r)) % 256) + (WordByte(w, k + q + 1) \div Pow2(8 - r))]

RECURSIVE ByteAnd(_, _)
ByteAnd(a, b) ==
  IF a = 0 \/ b = 0 THEN 0
  ELSE ((a % 2) * (b % 2)) + (2 * ByteAnd(a \div 2, b \div 2))

RECURSIVE ByteOr(_, _)
ByteOr(a, b) ==
  IF a = 0 THEN b ELSE IF b = 0 THEN a
  ELSE (IF (a % 2) = 1 \/ (b % 2) = 1 THEN 1 ELSE 0) + (2 * ByteOr(a \div 2, b \div 2))

\* The AND of every two bytes, computed once.
ByteAndTable == [a \in 0..255 |-> [b \in 0..255 |-> ByteAnd(a, b)]]

\* v & w and v | w on 32 bits.
WordAnd(v, w) == [k \in 1..4 |-> ByteAndTable[v[k]][w[k]]]
WordOr(v, w) == [k \in 1..4 |-> ByteOr(v[k], w[k])]

AllOnes == << 255, 255, 255, 255 >>

\* ------------------------- Utilities -------------------------

\* ipToUint: [ok |-> FALSE] stands for the invalid_argument it throws.
ipToUint(ip) ==
  LET parts == ScanParts(ip, 1, << >>)
  IN IF Len(parts) # 4 THEN [ok |-> FALSE, val |-> << 0, 0, 0, 0 >>]
     ELSE [ok |-> TRUE,
           val |-> WordOr(WordOr(WordOr(Shl(IntToWord(parts[1]), 24),
                                        Shl(IntToWord(parts[2]), 16)),
                                 Shl(IntToWord(parts[3]), 8)),
                          IntToWord(parts[4]))]

\* prefix == 0 ? 0 : (0xFFFFFFFF << (32 - prefix)), for every prefix in
\* range, computed once.
ShiftedOnes ==
  [p \in 0..32 |-> IF p = 0 THEN << 0, 0, 0, 0 >> ELSE Shl(AllOnes, 32 - p)]

\* maskFromPrefix: [ok |-> FALSE] stands for the invalid_argument it throws.
maskFromPrefix(prefix) ==
  IF prefix < 0 \/ prefix > 32 THEN [ok |-> FALSE, val |-> << 0, 0, 0, 0 >>]
  ELSE [ok |-> TRUE, val |-> ShiftedOnes[prefix]]

\* ------------------------- IPAddress -------------------------

\* stoi on the text after the slash: [ok |-> FALSE] stands for the
\* invalid_argument thrown when no digits can be converted and for the
\* out_of_range thrown when the numeral is outside int.
stoi(s) == InRange(ScanInt(s, 1))

NoAddress == [addr |-> << 0, 0, 0, 0 >>, prefix |-> 0]

\* Mutant of IPAddress: the value is stored without masking it to the prefix.
IPAddressUnmasked(cidr) ==
  LET slash == FindFrom(cidr, "/", 1)
      ip == IF slash = 0 THEN cidr ELSE SubSeq(cidr, 1, slash - 1)
      prefix == IF slash = 0 THEN [ok |-> TRUE, val |-> 32]
                ELSE stoi(SubSeq(cidr, slash + 1, Len(cidr)))
      raw == ipToUint(ip)
      mask == maskFromPrefix(prefix.val)
  IN IF ~prefix.ok \/ ~raw.ok \/ ~mask.ok
       THEN [ok |-> FALSE, ip |-> NoAddress]
       ELSE [ok |-> TRUE, ip |-> [addr |-> raw.val, prefix |-> prefix.val]]

\* The constructor from CIDR text.  ok = FALSE: the constructor threw
\* (from stoi, ipToUint or maskFromPrefix); ip is then meaningless.
IPAddress(cidr) ==
  LET slash == FindFrom(cidr, "/", 1)
      ip == IF slash = 0 THEN cidr ELSE SubSeq(cidr, 1, slash - 1)
      prefix == IF slash = 0 THEN [ok |-> TRUE, val |-> 32]
                ELSE stoi(SubSeq(cidr, slash + 1, Len(cidr)))
      raw == ipToUint(ip)
      mask == maskFromPrefix(prefix.val)
  IN IF ~prefix.ok \/ ~raw.ok \/ ~mask.ok
       THEN [ok |-> FALSE, ip |-> NoAddress]
       ELSE [ok |-> TRUE,
             ip |-> [addr |-> WordAnd(raw.val, mask.val), prefix |-> prefix.val]]

\* IPAddress::matches: self covers other.
matches(self, other) ==
  WordAnd(other.addr, maskFromPrefix(self.prefix).val) = self.addr

\* operator<< of an int: the decimal digits of n <= 0 (so that INT_MIN has
\* its digits too), and a minus sign before those of a negative int.
RECURSIVE DecDigits(_)
DecDigits(n) ==
  IF n > 0 - 10 THEN << DigitChar(0 - n) >>
  ELSE Append(DecDigits((n + 9) \div 10), DigitChar((10 - (n % 10)) % 10))

ToDec(n) == IF n < 0 THEN << "-" >> \o DecDigits(n) ELSE DecDigits(0 - n)

\* IPAddress::toString: the four octets, dotted, then /prefix.
toString(a) ==
  ToDec(a.addr[1]) \o << "." >> \o ToDec(a.addr[2]) \o << "." >> \o
  ToDec(a.addr[3]) \o << "." >> \o ToDec(a.addr[4]) \o << "/" >> \o ToDec(a.prefix)

\* IPAddress::operator==
IPEquals(a, b) == a.addr = b.addr /\ a.prefix = b.prefix

\* ------------------------- Route -------------------------

Route(net, gw, met) == [network |-> net, gateway |-> gw, metric |-> met]

\* Route::matches
RouteMatches(r, addr) == matches(r.network, addr)

\* Route::toString, kept as its three rendered parts.
RouteLine(r) == << toString(r.network), toString(r.gateway), ToDec(r.metric) >>

\* ------------------------- RoutingTable -------------------------

addRoute(routes, r) == Append(routes, r)

\* Mutant of removeRoute: networks are compared by value only, not by prefix.
removeRouteAnyPrefix(routes, network) ==
  LET kept == SelectSeq(routes, LAMBDA r : r.network.addr # network.addr)
  IN IF Len(kept) # Len(routes)
       THEN [routes |-> kept, msg |-> "removed"]
       ELSE [routes |-> routes, msg |-> "notfound"]

\* Mutant of removeRoute: an entry that equals the argument is overwritten
\* by the last entry, which is then dropped, so the order is not kept.
RECURSIVE swapRemoveFrom(_, _, _)
swapRemoveFrom(routes, network, i) ==
  IF i > Len(routes) THEN routes
  ELSE IF IPEquals(routes[i].network, network)
    THEN swapRemoveFrom([k \in 1..(Len(routes) - 1) |->
                           IF k = i THEN routes[Len(routes)] ELSE routes[k]],
                        network, i)
    ELSE swapRemoveFrom(routes, network, i + 1)

removeRouteSwapLast(routes, network) ==
  LET kept == swapRemoveFrom(routes, network, 1)
  IN IF Len(kept) # Len(routes)
       THEN [routes |-> kept, msg |-> "removed"]
       ELSE [routes |-> routes, msg |-> "notfound"]

\* remove_if keeps, in order, the routes whose network differs from the
\* argument; erase then drops the tail, if there is one.
removeRoute(routes, network) ==
  LET kept == SelectSeq(routes, LAMBDA r : ~IPEquals(r.network, network))
  IN IF Len(kept) # Len(routes)
       THEN [routes |-> kept, msg |-> "removed"]
       ELSE [routes |-> routes, msg |-> "notfound"]

\* The scan of findRoute from entry i on; best is << >> (no value) or << r >>.
RECURSIVE findRouteFrom(_, _, _, _)
findRouteFrom(routes, addr, i, best) ==
  IF i > Len(routes) THEN best
  ELSE LET r == routes[i]
           take == RouteMatches(r, addr) /\
                   (best = << >> \/ r.network.prefix > best[1].network.prefix)
       IN findRouteFrom(routes, addr, i + 1, IF take THEN << r >> ELSE best)

\* Mutant of findRoute: the first entry that matches is returned.
RECURSIVE findRouteFirstMatchFrom(_, _, _)
findRouteFirstMatchFrom(routes, addr, i) ==
  IF i > Len(routes) THEN << >>
  ELSE IF RouteMatches(routes[i], addr) THEN << routes[i] >>
  ELSE findRouteFirstMatchFrom(routes, addr, i + 1)

findRouteFirstMatch(routes, addr) == findRouteFirstMatchFrom(routes, addr, 1)

\* Mutant of findRoute: the comparison is >=, so the last entry of the
\* longest prefix wins.
RECURSIVE findRouteLastWinsFrom(_, _, _, _)
findRouteLastWinsFrom(routes, addr, i, best) ==
  IF i > Len(routes) THEN best
  ELSE LET r == routes[i]
           take == RouteMatches(r, addr) /\
                   (best = << >> \/ r.network.prefix >= best[1].network.prefix)
       IN findRouteLastWinsFrom(routes, addr, i + 1, IF take THEN << r >> ELSE best)

findRouteLastWins(routes, addr) == findRouteLastWinsFrom(routes, addr, 1, << >>)

findRoute(routes, addr) == findRouteFrom(routes, addr, 1, << >>)

\* std::sort with the comparator a.metric < b.metric: the result is some
\* permutation of the routes in which no entry precedes one of smaller
\* metric.  std::sort leaves the order of entries of equal metric
\* unspecified, so every such permutation is a possible result: any entry
\* of least metric comes first, followed by any such order of the others.
RECURSIVE sortedByMetric(_)
sortedByMetric(routes) ==
  IF routes = << >> THEN {<< >>}
  ELSE LET n == Len(routes)
           least == {i \in 1..n : \A j \in 1..n : ~(routes[j].metric < routes[i].metric)}
           without(i) == SubSeq(routes, 1, i - 1) \o SubSeq(routes, i + 1, n)
       IN UNION {{<< routes[i] >> \o rest : rest \in sortedByMetric(without(i))} :
                   i \in least}

\* ------------------------- Packet -------------------------

Packet(src, dst, proto) == [source |-> src, destination |-> dst, protocol |-> proto]

\* Packet::toString, kept as its three rendered parts.
PacketLine(p) == << toString(p.source), toString(p.destination), p.protocol >>

\* ------------------------- input alphabet -------------------------

TxtNet8 == << "1", "0", ".", "0", ".", "0", ".", "0", "/", "8" >>
TxtNet9Host == << "1", "0", ".", "0", ".", "0", ".", "1", "/", "9" >>
TxtNet33 == << "1", "0", ".", "0", ".", "0", ".", "0", "/", "3", "3" >>
TxtGw1 == << "1", ".", "1", ".", "1", ".", "1" >>
TxtGw2 == << "2", ".", "2", ".", "2", ".", "2" >>
TxtNet999 == << "9", "9", "9", ".", "1", ".", "1", ".", "1" >>
TxtGw33 == << "1", ".", "1", ".", "1", ".", "1", "/", "3", "3" >>
TxtDel8Host == << "1", "0", ".", "0", ".", "0", ".", "7", "/", "8" >>
TxtDel9 == << "1", "0", ".", "0", ".", "0", ".", "0", "/", "9" >>
TxtDelNoPrefix == << "1", "0", ".", "0", ".", "0", ".", "0", "/" >>
TxtSrc0 == << "7", ".", "7", ".", "7", ".", "7", "/", "0" >>
TxtSrcShort == << "1", "0", ".", "0", ".", "0" >>
TxtDstBoth == << "1", "0", ".", "1", ".", "2", ".", "3" >>
TxtDstWide == << "1", "0", ".", "2", "0", "0", ".", "0", ".", "1" >>
TxtDstNone == << "1", "9", "2", ".", "0", ".", "0", ".", "0" >>
TxtMetric10 == << "1", "0" >>
TxtMetric20 == << "2", "0" >>
TxtMetricHuge == << "9", "9", "9", "9", "9", "9", "9", "9", "9", "9", "9" >>
TxtDelHugePrefix ==
  << "1", "0", ".", "0", ".", "0", ".", "0", "/",
     "9", "9", "9", "9", "9", "9", "9", "9", "9", "9", "9" >>
TxtProto == << "I", "C", "M", "P" >>

NetTexts == {TxtNet8, TxtNet9Host}
GwTexts == {TxtGw1, TxtGw2}
MetricTexts == {TxtMetric10, TxtMetric20}
DelTexts == {TxtDel8Host, TxtDel9, TxtDelNoPrefix, TxtDelHugePrefix}
SrcTexts == {TxtSrc0}
DstTexts == {TxtDstBoth, TxtDstWide, TxtDstNone}

\* The argument lists of the add commands read: every network with every
\* gateway and metric, then a network of prefix 33, a gateway of prefix 33,
\* a network whose first octet is 999, a metric outside int, and a list
\* without its metric.
AddArgs == {<< n, g, m >> : n \in NetTexts, g \in GwTexts, m \in MetricTexts}
             \cup {<< TxtNet33, TxtGw1, TxtMetric10 >>,
                   << TxtNet8, TxtGw33, TxtMetric10 >>,
                   << TxtNet999, TxtGw1, TxtMetric10 >>,
                   << TxtNet8, TxtGw2, TxtMetricHuge >>,
                   << TxtNet8, TxtGw1 >>}

\* Those of the del commands: every network text, and an empty list.
DelArgs == {<< n >> : n \in DelTexts} \cup {<< >>}

\* Those of the sessions of add and del commands alone: every valid
\* network with every gateway, and a del of each of the two networks.
HistoryAddArgs == {<< n, g, TxtMetric10 >> : n \in NetTexts, g \in GwTexts}
HistoryDelArgs == {<< TxtDel8Host >>, << TxtDel9 >>}

\* Those of the send commands: every destination, then a source of three
\* octets and a list without its protocol.
SendArgs == {<< s, d, TxtProto >> : s \in SrcTexts, d \in DstTexts}
              \cup {<< TxtSrcShort, TxtDstBoth, TxtProto >>,
                    << TxtSrc0, TxtDstBoth >>}

\* Every address text of the alphabet, and what the constructor makes of
\* it: the handlers construct their IPAddress values through this table.
AddressTexts ==
  NetTexts \cup GwTexts \cup DelTexts \cup SrcTexts \cup DstTexts
    \cup {TxtNet33, TxtGw33, TxtNet999, TxtSrcShort}

Constructed == [t \in AddressTexts |-> IPAddress(t)]

\* ------------------------- RouterCLI -------------------------

VARIABLES
  table,    \* RoutingTable::routes, in insertion order
  log,      \* the records appended to router.log by this session
  cmd,      \* the command line run() read last: its first word and the rest
  out,      \* what the last command wrote to cout
  pkt,      \* the Packet of the handleSend that ran last, << >> otherwise
  running   \* run() is still in its loop

vars == << table, log, cmd, out, pkt, running >>

Say(kind, body) == [kind |-> kind, body |-> body]

Init ==
  /\ table = << >>
  /\ log = << >>
  /\ cmd = [op |-> "", args |-> << >>]
  /\ out = Say("help", << >>)
  /\ pkt = << >>
  /\ running = TRUE

\* The catch block of run(): the handler threw before changing anything.
Caught ==
  /\ out' = Say("error", << >>)
  /\ pkt' = << >>
  /\ UNCHANGED << table, log >>

\* A handler's early return after a failed extraction from the line.
Usage ==
  /\ out' = Say("usage", << >>)
  /\ pkt' = << >>
  /\ UNCHANGED << table, log >>

\* Mutant of handleAdd: the route is inserted once its network has
\* constructed, before the gateway is looked at.
handleAddPartial(args) ==
  IF Len(args) < 3 \/ ~extractInt(args[3]).ok THEN Usage
  ELSE LET net == Constructed[args[1]]
           gw == Constructed[args[2]]
           m == extractInt(args[3]).val
       IN IF ~net.ok THEN Caught
          ELSE IF ~gw.ok
            THEN /\ table' = addRoute(table, Route(net.ip, NoAddress, m))
                 /\ out' = Say("error", << >>)
                 /\ pkt' = << >>
                 /\ UNCHANGED log
            ELSE /\ table' = addRoute(table, Route(net.ip, gw.ip, m))
                 /\ out' = Say("added", << >>)
                 /\ log' = Append(log, Say("ADD", << args[1], args[2], ToDec(m) >>))
                 /\ pkt' = << >>

handleAdd(args) ==
  IF Len(args) < 3 \/ ~extractInt(args[3]).ok THEN Usage
  ELSE LET net == Constructed[args[1]]
           gw == Constructed[args[2]]
           m == extractInt(args[3]).val
       IN IF ~net.ok \/ ~gw.ok THEN Caught
          ELSE /\ table' = addRoute(table, Route(net.ip, gw.ip, m))
               /\ out' = Say("added", << >>)
               /\ log' = Append(log, Say("ADD", << args[1], args[2], ToDec(m) >>))
               /\ pkt' = << >>

\* Mutant of handleDelete: the DEL record is written only when a route
\* was removed.
handleDeleteQuiet(args) ==
  IF Len(args) < 1 THEN Usage
  ELSE LET net == Constructed[args[1]]
       IN IF ~net.ok THEN Caught
          ELSE LET res == removeRoute(table, net.ip)
               IN /\ table' = res.routes
                  /\ out' = Say(res.msg, << >>)
                  /\ log' = IF res.msg = "removed"
                              THEN Append(log, Say("DEL", << args[1] >>))
                              ELSE log
                  /\ pkt' = << >>

handleDelete(args) ==
  IF Len(args) < 1 THEN Usage
  ELSE LET net == Constructed[args[1]]
       IN IF ~net.ok THEN Caught
          ELSE LET res == removeRoute(table, net.ip)
               IN /\ table' = res.routes
                  /\ out' = Say(res.msg, << >>)
                  /\ log' = Append(log, Say("DEL", << args[1] >>))
                  /\ pkt' = << >>

\* Mutant of print: the routes themselves are sorted, not a copy.
printInPlace ==
  /\ IF table = << >>
       THEN out' = Say("empty", << >>) /\ table' = table
       ELSE \E sorted \in sortedByMetric(table) :
              /\ out' = Say("table", [i \in 1..Len(sorted) |-> RouteLine(sorted[i])])
              /\ table' = sorted
  /\ pkt' = << >>
  /\ UNCHANGED log

\* RoutingTable::print
print ==
  /\ IF table = << >>
       THEN out' = Say("empty", << >>)
       ELSE \E sorted \in sortedByMetric(table) :
              out' = Say("table", [i \in 1..Len(sorted) |-> RouteLine(sorted[i])])
  /\ pkt' = << >>
  /\ UNCHANGED << table, log >>

handleSend(args) ==
  IF Len(args) < 3 THEN Usage
  ELSE LET src == Constructed[args[1]]
           dst == Constructed[args[2]]
       IN IF ~src.ok \/ ~dst.ok THEN Caught
          ELSE LET p == Packet(src.ip, dst.ip, args[3])
                   r == findRoute(table, p.destination)
               IN /\ pkt' = << p >>
                  /\ IF r # << >>
                       THEN /\ out' = Say("fwd", << PacketLine(p), << toString(r[1].gateway) >> >>)
                            /\ log' = Append(log, Say("FWD", PacketLine(p) \o << toString(r[1].gateway) >>))
                       ELSE /\ out' = Say("drop", << PacketLine(p) >>)
                            /\ log' = Append(log, Say("DROP", PacketLine(p)))
                  /\ UNCHANGED table

printHelp ==
  /\ out' = Say("help", << >>)
  /\ pkt' = << >>
  /\ UNCHANGED << table, log >>

\* One iteration of the loop of run() per action: the line is read, its
\* first word dispatched, and the handler runs to its end or to the catch.
CmdAdd ==
  \E args \in AddArgs :
    /\ running /\ Len(log) < MaxLog
    /\ cmd' = [op |-> "add", args |-> args]
    /\ handleAdd(args)
    /\ UNCHANGED running

CmdDel ==
  \E args \in DelArgs :
    /\ running /\ Len(log) < MaxLog
    /\ cmd' = [op |-> "del", args |-> args]
    /\ handleDelete(args)
    /\ UNCHANGED running

CmdShow ==
  /\ running
  /\ cmd' = [op |-> "show", args |-> << >>]
  /\ print
  /\ UNCHANGED running

CmdSend ==
  \E args \in SendArgs :
    /\ running /\ Len(log) < MaxLog
    /\ cmd' = [op |-> "send", args |-> args]
    /\ handleSend(args)
    /\ UNCHANGED running

CmdHelp ==
  /\ running
  /\ cmd' = [op |-> "help", args |-> << >>]
  /\ printHelp
  /\ UNCHANGED running

CmdUnknown ==
  /\ running
  /\ cmd' = [op |-> "list", args |-> << >>]
  /\ out' = Say("unknown", << >>)
  /\ pkt' = << >>
  /\ UNCHANGED << table, log, running >>

\* "exit", or the end of the input: the loop is left.
CmdExit ==
  /\ running
  /\ cmd' = [op |-> "exit", args |-> << >>]
  /\ running' = FALSE
  /\ out' = Say("", << >>)
  /\ pkt' = << >>
  /\ UNCHANGED << table, log >>

Next ==
  \/ CmdAdd
  \/ CmdDel
  \/ CmdShow
  \/ CmdSend
  \/ CmdHelp
  \/ CmdUnknown
  \/ CmdExit

Spec == Init /\ [][Next]_vars

\* The sessions made of add and del commands alone, up to MaxHistory records.
CmdAddHistory ==
  \E args \in HistoryAddArgs :
    /\ running /\ Len(log) < MaxHistory
    /\ cmd' = [op |-> "add", args |-> args]
    /\ handleAdd(args)
    /\ UNCHANGED running

CmdDelHistory ==
  \E args \in HistoryDelArgs :
    /\ running /\ Len(log) < MaxHistory
    /\ cmd' = [op |-> "del", args |-> args]
    /\ handleDelete(args)
    /\ UNCHANGED running

NextHistory ==
  \/ CmdAddHistory
  \/ CmdDelHistory

SpecHistory == Init /\ [][NextHistory]_vars

\* ------------------------- vocabulary of the properties -------------------------

\* The network mask of a prefix length, byte by byte: the first p bits set.
PrefixMask(p) ==
  [k \in 1..4 |->
     LET bits == IF p - (8 * (k - 1)) < 0 THEN 0
                 ELSE IF p - (8 * (k - 1)) > 8 THEN 8 ELSE p - (8 * (k - 1))
     IN 256 - Pow2(8 - bits)]

\* Network net contains address d: d's value under net's mask is net's value.
Covers(net, d) == WordAnd(d.addr, PrefixMask(net.prefix)) = net.addr

\* The entries of routes that contain d, by position.
Candidates(routes, d) == {i \in 1..Len(routes) : Covers(routes[i].network, d)}

\* The candidates of maximal prefix length.
Longest(routes, d) ==
  {i \in Candidates(routes, d) :
     \A j \in Candidates(routes, d) :
       routes[j].network.prefix <= routes[i].network.prefix}

\* The destinations looked up: those of the alphabet that construct.
Probes == {Constructed[t].ip : t \in {u \in DstTexts : Constructed[u].ok}}

MetricValues == {extractInt(m).val : m \in MetricTexts}

\* The table as construction or a completed add or del left it: every table
\* the program can hold is the table of such a state.
TableSettled == cmd.op = "" \/ out.kind \in {"added", "removed", "notfound"}

\* C1: after any adds and dels, findRoute returns an entry of the table that contains the
\* destination and whose prefix length is the largest among the entries
\* containing it, and returns nothing exactly when no entry contains it; a
\* send forwards through the gateway of such an entry and drops exactly
\* when there is none.
C1_LongestPrefixMatch ==
  /\ TableSettled =>
       \A d \in Probes :
         LET res == findRoute(table, d)
         IN /\ (res = << >>) <=> (Candidates(table, d) = {})
            /\ res # << >> => \E i \in Longest(table, d) : res[1] = table[i]
  /\ pkt # << >> =>
       LET d == pkt[1].destination
       IN /\ (out.kind = "drop") <=> (Candidates(table, d) = {})
          /\ (out.kind = "fwd") <=> (Candidates(table, d) # {})
          /\ out.kind = "fwd" =>
               \E i \in Longest(table, d) :
                 out.body[2] = << toString(table[i].gateway) >>

\* A send was forwarded through the more specific of two entries containing
\* its destination, the more specific one having been inserted later.
C1_Witness ==
  /\ pkt # << >>
  /\ out.kind = "fwd"
  /\ \E i, j \in Candidates(table, pkt[1].destination) :
       /\ i < j
       /\ table[i].network.prefix < table[j].network.prefix
       /\ table[i].gateway # table[j].gateway
       /\ out.body[2] = << toString(table[j].gateway) >>

\* The same routes with the metrics given by f.
Remetric(routes, f) ==
  [i \in 1..Len(routes) |-> [routes[i] EXCEPT !.metric = f[i]]]

\* C2: among the entries of maximal prefix length containing the
\* destination, findRoute returns the one inserted first, and the gateway it
\* selects is the same whatever metrics the entries carry; a send forwards
\* through the gateway of that first entry.
C2_FirstInsertedWins ==
  /\ TableSettled =>
       \A d \in Probes :
         LET res == findRoute(table, d)
         IN /\ res # << >> =>
                 \E i \in Longest(table, d) :
                   /\ \A j \in Longest(table, d) : i <= j
                   /\ res[1] = table[i]
            /\ \A f \in [1..Len(table) -> MetricValues] :
                 LET other == findRoute(Remetric(table, f), d)
                 IN /\ (other = << >>) <=> (res = << >>)
                    /\ res # << >> => other[1].gateway = res[1].gateway
  /\ (pkt # << >> /\ out.kind = "fwd") =>
       \E i \in Longest(table, pkt[1].destination) :
         /\ \A j \in Longest(table, pkt[1].destination) : i <= j
         /\ out.body[2] = << toString(table[i].gateway) >>

\* Two entries with the same network and different gateways and metrics
\* contain the destination of a send, which went through the first one.
C2_Witness ==
  /\ pkt # << >>
  /\ out.kind = "fwd"
  /\ \E i, j \in Longest(table, pkt[1].destination) :
       /\ i < j
       /\ table[i].gateway # table[j].gateway
       /\ table[i].metric > table[j].metric
       /\ out.body[2] = << toString(table[i].gateway) >>

\* C3: a del that constructs its network removes exactly the entries whose
\* network has that value and that prefix length, keeps the others in
\* order, and says "not found" exactly when no entry matched (the table is
\* then unchanged), "removed" otherwise.
C3_RemoveExact ==
  [][(cmd'.op = "del" /\ out'.kind \in {"removed", "notfound"}) =>
       LET n == Constructed[cmd'.args[1]].ip
           hit == {i \in 1..Len(table) :
                     table[i].network.addr = n.addr /\ table[i].network.prefix = n.prefix}
       IN /\ table' = SelectSeq(table, LAMBDA r :
                        ~(r.network.addr = n.addr /\ r.network.prefix = n.prefix))
          /\ (out'.kind = "notfound") <=> (hit = {})
          /\ hit = {} => table' = table]_vars

\* A del removed something and left in place an entry with the same base
\* address and another prefix length.
C3_Witness ==
  /\ cmd.op = "del"
  /\ out.kind = "removed"
  /\ \E i \in 1..Len(table) :
       /\ table[i].network.addr = Constructed[cmd.args[1]].ip.addr
       /\ table[i].network.prefix # Constructed[cmd.args[1]].ip.prefix

\* C4: an add, del or send that ends in an error leaves the table as it
\* was, entry for entry, and the loop goes on reading commands.
C4_FailureAtomic ==
  [][(cmd'.op \in {"add", "del", "send"} /\ out'.kind \in {"error", "usage"}) =>
       (table' = table /\ running')]_vars

\* An add failed on its gateway after its network had constructed, with
\* routes in the table.
C4_Witness ==
  /\ cmd.op = "add"
  /\ out.kind = "error"
  /\ Constructed[cmd.args[1]].ok
  /\ ~Constructed[cmd.args[2]].ok
  /\ table # << >>
  /\ running

\* The text names a prefix length outside 0..32.
PrefixOutOfRange(text) ==
  LET slash == FindFrom(text, "/", 1)
      n == ScanInt(text, slash + 1)
  IN slash # 0 /\ n.ok /\ (n.over \/ n.val \notin 0..32)

\* The text has an octet outside 0..255.
OctetOutOfRange(text) ==
  LET parts == ScanParts(text, 1, << >>)
  IN \E k \in 1..Len(parts) : parts[k] \notin 0..255

\* C5: an add whose network or gateway text has a prefix outside 0..32, or
\* an octet out of range such as 999, fails with an error, adds no entry
\* and appends no log record.
C5_InvalidInputRejected ==
  [][(/\ cmd'.op = "add"
      /\ Len(cmd'.args) = 3
      /\ \E k \in 1..2 :
           PrefixOutOfRange(cmd'.args[k]) \/ OctetOutOfRange(cmd'.args[k])) =>
       (out'.kind = "error" /\ table' = table /\ log' = log)]_vars

\* The stable order by ascending metric: entries of equal metric in their
\* insertion order.
StableByMetric(routes) ==
  LET n == Len(routes)
      before(a, b) == routes[a].metric < routes[b].metric
                        \/ (routes[a].metric = routes[b].metric /\ a < b)
      pos(a) == 1 + Cardinality({b \in 1..n : before(b, a)})
  IN [k \in 1..n |-> routes[CHOOSE a \in 1..n : pos(a) = k]]

\* C6: show prints the entries of the table in ascending metric, entries of
\* equal metric in their insertion order, and the "empty" marker for an
\* empty table.  Stated for the sessions whose adds all had octets in
\* range, so that what refutes it owes nothing to C5.
C6_StableMetricOrder ==
  (/\ cmd.op = "show"
   /\ \A i \in 1..Len(log) :
        log[i].kind = "ADD" =>
          ~OctetOutOfRange(log[i].body[1]) /\ ~OctetOutOfRange(log[i].body[2])) =>
    IF table = << >> THEN out.kind = "empty"
    ELSE /\ out.kind = "table"
         /\ out.body = [k \in 1..Len(table) |-> RouteLine(StableByMetric(table)[k])]

ValidAddress(a) ==
  /\ a.prefix \in 0..32
  /\ \A k \in 1..4 : a.addr[k] \in 0..255
  /\ WordAnd(a.addr, PrefixMask(a.prefix)) = a.addr

\* C7: every address held (network and gateway of every entry, source and
\* destination of the packet of a send) has a prefix length in 0..32 and no
\* bit set outside its prefix; the mask of prefix 0 is 0 and that of prefix
\* 32 is 0xFFFFFFFF.
C7_AddressInvariant ==
  /\ \A i \in 1..Len(table) :
       ValidAddress(table[i].network) /\ ValidAddress(table[i].gateway)
  /\ pkt # << >> => ValidAddress(pkt[1].source) /\ ValidAddress(pkt[1].destination)
  /\ maskFromPrefix(0).val = << 0, 0, 0, 0 >>
  /\ maskFromPrefix(32).val = << 255, 255, 255, 255 >>

\* The table holds a network whose text had a host bit set, and the source
\* of the packet of a send had prefix 0 and host bits set in its text.
C7_Witness ==
  /\ pkt # << >>
  /\ pkt[1].source = [addr |-> << 0, 0, 0, 0 >>, prefix |-> 0]
  /\ \E i \in 1..Len(table) :
       /\ table[i].network = [addr |-> << 10, 0, 0, 0 >>, prefix |-> 9]
       /\ table[i].gateway.prefix = 32

\* C8: a send and a show leave the table as it was, same entries in the
\* same order, so every lookup gives the same result after as before.
C8_ReadOnly ==
  [][cmd'.op \in {"send", "show"} =>
       /\ table' = table
       /\ \A d \in Probes : findRoute(table', d) = findRoute(table, d)]_vars

\* A show printed the entries in an order other than the insertion order,
\* and the table still holds them in insertion order.
C8_Witness ==
  /\ cmd.op = "show"
  /\ out.kind = "table"
  /\ Len(table) >= 2
  /\ table[1].metric > table[2].metric
  /\ out.body # [k \in 1..Len(table) |-> RouteLine(table[k])]

\* C9: a step appends at most one record at the end of the log; an add that
\* completes appends one ADD, a del that completes one DEL, a send that
\* completes one FWD if an entry contains its destination and one DROP if
\* none does; show, help, unknown commands and failed commands append
\* nothing.
C9_LogProtocol ==
  [][LET op == cmd'.op
         kind == out'.kind
         failed == kind \in {"error", "usage"}
         one(k) == Len(log') = Len(log) + 1
                     /\ SubSeq(log', 1, Len(log)) = log
                     /\ log'[Len(log')].kind = k
     IN /\ (op = "add" /\ ~failed) => one("ADD")
        /\ (op = "del" /\ ~failed) => one("DEL")
        /\ (op = "send" /\ ~failed) =>
             LET d == Constructed[cmd'.args[2]].ip
             IN IF Candidates(table, d) # {} THEN one("FWD") ELSE one("DROP")
        /\ (op \notin {"add", "del", "send"} \/ failed) => log' = log]_vars

\* The log holds an ADD, then a FWD, then a DROP, and the last command was
\* the send that was dropped.
C9_Witness ==
  /\ Len(log) = 3
  /\ log[1].kind = "ADD"
  /\ log[2].kind = "FWD"
  /\ log[3].kind = "DROP"
  /\ cmd.op = "send"

\* The add and del records of the log, in order: the history of the table.
History == SelectSeq(log, LAMBDA e : e.kind \in {"ADD", "DEL"})

\* The entry an ADD record stands for.
EntryOf(e) ==
  Route(Constructed[e.body[1]].ip, Constructed[e.body[2]].ip, extractInt(e.body[3]).val)

\* The positions of the adds that no later del names.
Surviving(h) ==
  SelectSeq([i \in 1..Len(h) |-> i],
            LAMBDA i : /\ h[i].kind = "ADD"
                       /\ \A j \in (i + 1)..Len(h) :
                            h[j].kind = "DEL" =>
                              Constructed[h[j].body[1]].ip # EntryOf(h[i]).network)

\* C10: in every session of add and del commands the table is the sequence
\* of the entries added, in the order of their adds, without those whose
\* network a later del named; an add of a network already present is kept
\* as a further entry, and a del keeps the order of the entries it leaves.
C10_InsertionHistory ==
  LET h == History
      alive == Surviving(h)
  IN table = [k \in 1..Len(alive) |-> EntryOf(h[alive[k]])]

\* After three adds, the last two of the same network through different
\* gateways, a del removed the first entry and left the other two in the
\* order of their adds.
C10_Witness ==
  /\ Len(log) = 4
  /\ log[1].kind = "ADD" /\ log[2].kind = "ADD" /\ log[3].kind = "ADD"
  /\ log[4].kind = "DEL"
  /\ out.kind = "removed"
  /\ EntryOf(log[2]).network = EntryOf(log[3]).network
  /\ EntryOf(log[2]) # EntryOf(log[3])
  /\ table = << EntryOf(log[2]), EntryOf(log[3]) >>

====
